---- MODULE Spec2Model ----
(***************************************************************************)
(* StellarForge N-body engine: the particle store, the host boundary       *)
(* (python_bindings.cpp), the Barnes-Hut octree and the step pipeline      *)
(* (physics_engine.cpp, barnes_hut_tree.cpp).                              *)
(*                                                                         *)
(* Numbers.  A float is modelled as an integer on a grid; every            *)
(* arithmetic result that is not on the grid is rounded toward zero        *)
(* (Quot), as a float result is rounded to the nearest float.  Lengths     *)
(* (positions, softening_, node sizes seen by the evaluator) are whole     *)
(* length units; velocities, accelerations and the Barnes-Hut factor       *)
(* carry FScale fractional units; theta_ carries ThetaScale; octree        *)
(* centers and sizes carry TreeUnit so that halving a cube is exact, as    *)
(* it is in binary floating point.                                         *)
(*                                                                         *)
(* Indices.  The code's index i (0-based) is element i+1 of a sequence.    *)
(***************************************************************************)
EXTENDS Integers, Sequences, FiniteSets, TLC

VARIABLES
    positions,            \* particles_.positions
    velocities,           \* particles_.velocities
    accelerations,        \* particles_.accelerations
    masses,               \* particles_.masses
    types,                \* particles_.types
    current_backend_,     \* ComputeBackend
    G_, softening_, theta_, collisions_enabled_,
    build,                \* which of USE_CUDA / USE_OPENGL_COMPUTE the build defines
    last,                 \* the last host call: its name, argument and outcome
    log,                  \* what the last call did, when it was a step (NoLog otherwise)
    calls,                \* number of host calls made so far (bounded by MaxCalls)
    pc                    \* "idle": the engine accepts a call; "crashed": the process died

store == <<positions, velocities, accelerations, masses, types>>
config == <<current_backend_, G_, softening_, theta_, collisions_enabled_>>
vars == <<positions, velocities, accelerations, masses, types,
          current_backend_, G_, softening_, theta_, collisions_enabled_,
          build, last, log, calls, pc>>

-----------------------------------------------------------------------------
(* Bounds of the model *)

MaxN == 2            \* rows of a host buffer / particles of the host-API model
MaxCalls == 2        \* host calls per behaviour
MaxDepth == 11       \* octree depth explored before recursion counts as unbounded

(* Number grids *)
FScale == 1024       \* fractional units of velocities, accelerations, factor
ThetaScale == 2      \* fractional units of theta_ (0.5 is 1)
PadScale == 8        \* fractional units the padded root size is rounded to
CoordMax == 256      \* |coordinate| for which the tree arithmetic stays exact

RECURSIVE Pow2(_)
Pow2(n) == IF n = 0 THEN 1 ELSE 2 * Pow2(n - 1)

TreeUnit == PadScale * Pow2(MaxDepth + 2)

Abs(x) == IF x < 0 THEN -x ELSE x
Max(a, b) == IF a >= b THEN a ELSE b
Min(a, b) == IF a <= b THEN a ELSE b

\* a / b rounded toward zero (b > 0): the rounding of one float operation
Quot(a, b) == IF a >= 0 THEN a \div b ELSE -((-a) \div b)

RECURSIVE ISqrtIn(_, _, _)
ISqrtIn(x, lo, hi) ==
    IF lo >= hi THEN lo
    ELSE LET mid == (lo + hi + 1) \div 2
         IN  IF mid * mid <= x THEN ISqrtIn(x, mid, hi) ELSE ISqrtIn(x, lo, mid - 1)
\* std::sqrt rounded down to the grid
ISqrt(x) == ISqrtIn(x, 0, Min(x, 46340))

Zero3 == <<0, 0, 0>>

SeqsUpTo(S, n) == UNION {[1..k -> S] : k \in 0..n}

-----------------------------------------------------------------------------
(* Host buffers (py::array_t): number of dimensions, shape, flat C-order data *)

RECURSIVE Flatten(_)
Flatten(rows) == IF rows = <<>> THEN <<>> ELSE Head(rows) \o Flatten(Tail(rows))

Array2(rows) == [ndim |-> 2, shape |-> <<Len(rows), 3>>, data |-> Flatten(rows)]
Array1(vals) == [ndim |-> 1, shape |-> <<Len(vals)>>, data |-> vals]

RECURSIVE Product(_)
Product(sh) == IF sh = <<>> THEN 1 ELSE Head(sh) * Product(Tail(sh))
\* py::buffer_info::size
BufSize(buf) == Product(buf.shape)

NoArg == <<>>
NoLog == <<>>
\* a host call that returned (err = "none") or threw std::runtime_error (err = its text)
Call(op, arg, err) == [op |-> op, arg |-> arg, err |-> err, ub |-> FALSE]
\* a host call that indexed a vector outside its bounds (undefined behaviour)
CallUB(op, arg) == [op |-> op, arg |-> arg, err |-> "none", ub |-> TRUE]

-----------------------------------------------------------------------------
(* PhysicsEngine: the engine-level operations on the five arrays *)

\* std::vector::resize(n): keeps the first n elements, value-initialises new ones
Resize(v, n, zero) == [i \in 1..n |-> IF i <= Len(v) THEN v[i] ELSE zero]

\* std::vector::erase(begin() + index), index < size (0-based index)
Erase(v, index) == [i \in 1..(Len(v) - 1) |-> IF i <= index THEN v[i] ELSE v[i + 1]]

get_particle_count == Len(positions)

\* rows read from a column-major buffer
RowsOfColumns(ptr, count) ==
    [i \in 1..count |-> <<ptr[i], ptr[count + i], ptr[2 * count + i]>>]

\* the loop of set_positions / set_velocities: row i from ptr[i*3 .. i*3+2]
RowsOf(ptr, count) ==
    [i \in 1..count |-> <<ptr[3 * (i - 1) + 1], ptr[3 * (i - 1) + 2], ptr[3 * (i - 1) + 3]>>]

\* the loop of set_masses / set_types
ScalarsOf(ptr, count) == [i \in 1..count |-> ptr[i]]

\* the engine exists and the model's budget of calls is not spent
Running == pc = "idle" /\ calls < MaxCalls

\* a tag mapping that falls back to the default backend
BackendOrDefault(tag) ==
    CASE tag = "single" -> "CPU_SINGLE_THREAD"
      [] tag = "openmp" -> "CPU_OPENMP"
      [] tag = "cuda"   -> "CUDA"
      [] tag = "opengl" -> "OPENGL_COMPUTE"
      [] OTHER          -> "CPU_OPENMP"

BackendOfTag(tag) ==
    CASE tag = "single" -> "CPU_SINGLE_THREAD"
      [] tag = "openmp" -> "CPU_OPENMP"
      [] tag = "cuda"   -> "CUDA"
      [] tag = "opengl" -> "OPENGL_COMPUTE"
      [] OTHER          -> "unknown"

TagOfBackend(b) ==
    CASE b = "CPU_SINGLE_THREAD" -> "single"
      [] b = "CPU_OPENMP"        -> "openmp"
      [] b = "CUDA"              -> "cuda"
      [] b = "OPENGL_COMPUTE"    -> "opengl"
      [] OTHER                   -> "unknown"

\* PhysicsEnginePython::get_backend
get_backend == TagOfBackend(current_backend_)

\* initialize without its loop: the accelerations kept by resize stay as they were
KeepAccelerations(acc, n) == acc

\* for (i < particle_count) accelerations[i] = {0, 0, 0}
ZeroAccelerations(acc, n) == [i \in 1..Len(acc) |-> IF i <= n THEN Zero3 ELSE acc[i]]

\* PhysicsEnginePython::initialize -> PhysicsEngine::initialize
initialize(particle_count, tag) ==
    /\ Running
    /\ calls' = calls + 1
    /\ IF BackendOfTag(tag) = "unknown"
       THEN /\ last' = Call("initialize", <<particle_count, tag>>, "Unknown backend: " \o tag)
            /\ UNCHANGED <<store, config>>
       ELSE /\ positions' = Resize(positions, particle_count, Zero3)
            /\ velocities' = Resize(velocities, particle_count, Zero3)
            /\ accelerations' =
                   ZeroAccelerations(Resize(accelerations, particle_count, Zero3),
                                     particle_count)
            /\ masses' = Resize(masses, particle_count, 0)
            /\ types' = Resize(types, particle_count, 0)
            /\ current_backend_' = BackendOfTag(tag)
            /\ last' = Call("initialize", <<particle_count, tag>>, "none")
            /\ UNCHANGED <<G_, softening_, theta_, collisions_enabled_>>
    /\ UNCHANGED <<build, pc>>
    /\ log' = NoLog

\* PhysicsEnginePython::set_backend -> PhysicsEngine::set_backend
set_backend(tag) ==
    /\ Running
    /\ calls' = calls + 1
    /\ IF BackendOfTag(tag) = "unknown"
       THEN /\ last' = Call("set_backend", tag, "Unknown backend: " \o tag)
            /\ UNCHANGED config
       ELSE /\ current_backend_' = BackendOfTag(tag)
            /\ last' = Call("set_backend", tag, "none")
            /\ UNCHANGED <<G_, softening_, theta_, collisions_enabled_>>
    /\ UNCHANGED <<store, build, pc>>
    /\ log' = NoLog

\* PhysicsEnginePython::set_positions -> PhysicsEngine::set_positions
set_positions(buf) ==
    /\ Running
    /\ calls' = calls + 1
    /\ IF buf.ndim # 2 \/ buf.shape[2] # 3
       THEN /\ last' = Call("set_positions", buf, "Positions must be (N, 3) array")
            /\ UNCHANGED positions
       ELSE /\ positions' = RowsOf(buf.data, buf.shape[1])
            /\ last' = Call("set_positions", buf, "none")
    /\ UNCHANGED <<velocities, accelerations, masses, types, config, build, pc>>
    /\ log' = NoLog

\* PhysicsEnginePython::set_velocities -> PhysicsEngine::set_velocities
set_velocities(buf) ==
    /\ Running
    /\ calls' = calls + 1
    /\ IF buf.ndim # 2 \/ buf.shape[2] # 3
       THEN /\ last' = Call("set_velocities", buf, "Velocities must be (N, 3) array")
            /\ UNCHANGED velocities
       ELSE /\ velocities' = RowsOf(buf.data, buf.shape[1])
            /\ last' = Call("set_velocities", buf, "none")
    /\ UNCHANGED <<positions, accelerations, masses, types, config, build, pc>>
    /\ log' = NoLog

\* set_masses copying what it can before it validates the shape
SetMassesThenValidate(buf) ==
    /\ Running
    /\ calls' = calls + 1
    /\ masses' = ScalarsOf(buf.data, Min(buf.shape[1], Len(buf.data)))
    /\ last' = Call("set_masses", buf,
                    IF buf.ndim # 1 THEN "Masses must be (N,) array" ELSE "none")
    /\ UNCHANGED <<positions, velocities, accelerations, types, config, build, pc>>
    /\ log' = NoLog

\* PhysicsEnginePython::set_masses -> PhysicsEngine::set_masses
set_masses(buf) ==
    /\ Running
    /\ calls' = calls + 1
    /\ IF buf.ndim # 1
       THEN /\ last' = Call("set_masses", buf, "Masses must be (N,) array")
            /\ UNCHANGED masses
       ELSE /\ masses' = ScalarsOf(buf.data, buf.shape[1])
            /\ last' = Call("set_masses", buf, "none")
    /\ UNCHANGED <<positions, velocities, accelerations, types, config, build, pc>>
    /\ log' = NoLog

\* PhysicsEnginePython::set_types -> PhysicsEngine::set_types
set_types(buf) ==
    /\ Running
    /\ calls' = calls + 1
    /\ IF buf.ndim # 1
       THEN /\ last' = Call("set_types", buf, "Types must be (N,) array")
            /\ UNCHANGED types
       ELSE /\ types' = ScalarsOf(buf.data, buf.shape[1])
            /\ last' = Call("set_types", buf, "none")
    /\ UNCHANGED <<positions, velocities, accelerations, masses, config, build, pc>>
    /\ log' = NoLog

\* PhysicsEnginePython::add_particle -> PhysicsEngine::add_particle
add_particle(pos, vel, mass, type) ==
    /\ Running
    /\ calls' = calls + 1
    /\ IF BufSize(pos) # 3 \/ BufSize(vel) # 3
       THEN /\ last' = Call("add_particle", <<pos, vel, mass, type>>,
                            "Position and velocity must be size 3")
            /\ UNCHANGED store
       ELSE /\ positions' = Append(positions, <<pos.data[1], pos.data[2], pos.data[3]>>)
            /\ velocities' = Append(velocities, <<vel.data[1], vel.data[2], vel.data[3]>>)
            /\ accelerations' = Append(accelerations, Zero3)
            /\ masses' = Append(masses, mass)
            /\ types' = Append(types, type)
            /\ last' = Call("add_particle", <<pos, vel, mass, type>>, "none")
    /\ UNCHANGED <<config, build, pc>>
    /\ log' = NoLog

\* erase at an index outside the vector is undefined; when the process survives it,
\* the vector is taken to be left as it was
EraseOrKeep(v, index) == IF index < Len(v) THEN Erase(v, index) ELSE v

MkStore(p, v, a, m, ty) ==
    [positions |-> p, velocities |-> v, accelerations |-> a, masses |-> m, types |-> ty]

Size(st) == Len(st.positions)

\* remove_particle without its test of the index against the particle count
RemoveUnguarded(st, index) ==
    MkStore(EraseOrKeep(st.positions, index),
            EraseOrKeep(st.velocities, index),
            EraseOrKeep(st.accelerations, index),
            EraseOrKeep(st.masses, index),
            EraseOrKeep(st.types, index))

\* PhysicsEngine::remove_particle on a store
RemoveParticle(st, index) ==
    IF index >= Size(st) THEN st
    ELSE MkStore(Erase(st.positions, index),
                 EraseOrKeep(st.velocities, index),
                 EraseOrKeep(st.accelerations, index),
                 EraseOrKeep(st.masses, index),
                 EraseOrKeep(st.types, index))

Store == MkStore(positions, velocities, accelerations, masses, types)

\* the constructor's values: G 1.0, softening 0.01 (two length units), theta 0.5
DefaultG == 1
DefaultSoftening == 2
DefaultTheta == ThetaScale \div 2

\* the parameters as the constructor left them
DefaultConfig == [G |-> DefaultG, softening |-> DefaultSoftening,
                  theta |-> DefaultTheta, collisions |-> FALSE]

\* a step that reads the constructor's values, not the members
ParametersAsConstructed == DefaultConfig

\* the parameters a step reads: the members as they are when it is called
Config == [G |-> G_, softening |-> softening_, theta |-> theta_,
           collisions |-> collisions_enabled_]

EraseInBounds(st, index) ==
    /\ index < Len(st.velocities)
    /\ index < Len(st.accelerations)
    /\ index < Len(st.masses)
    /\ index < Len(st.types)

\* PhysicsEnginePython::remove_particle -> PhysicsEngine::remove_particle
remove_particle(index) ==
    /\ Running
    /\ calls' = calls + 1
    /\ LET r == RemoveParticle(Store, index)
       IN  /\ positions' = r.positions
           /\ velocities' = r.velocities
           /\ accelerations' = r.accelerations
           /\ masses' = r.masses
           /\ types' = r.types
    /\ IF index >= Len(positions) \/ EraseInBounds(Store, index)
       THEN /\ last' = Call("remove_particle", index, "none")
            /\ pc' = pc
       ELSE /\ last' = CallUB("remove_particle", index)
            /\ pc' \in {"idle", "crashed"}
    /\ log' = NoLog
    /\ UNCHANGED <<config, build>>

\* PhysicsEnginePython::reset -> PhysicsEngine::reset
reset ==
    /\ Running
    /\ calls' = calls + 1
    /\ accelerations' = ZeroAccelerations(accelerations, Len(positions))
    /\ log' = NoLog
    /\ IF Len(positions) <= Len(accelerations)
       THEN /\ last' = Call("reset", NoArg, "none")
            /\ pc' = pc
       ELSE /\ last' = CallUB("reset", NoArg)
            /\ pc' \in {"idle", "crashed"}
    /\ UNCHANGED <<positions, velocities, masses, types, config, build>>

set_gravitational_constant(G) ==
    /\ Running
    /\ calls' = calls + 1
    /\ G_' = G
    /\ last' = Call("set_gravitational_constant", G, "none")
    /\ UNCHANGED <<store, current_backend_, softening_, theta_, collisions_enabled_,
                   build, pc>>
    /\ log' = NoLog

set_softening_length(epsilon) ==
    /\ Running
    /\ calls' = calls + 1
    /\ softening_' = epsilon
    /\ last' = Call("set_softening_length", epsilon, "none")
    /\ UNCHANGED <<store, current_backend_, G_, theta_, collisions_enabled_,
                   build, pc>>
    /\ log' = NoLog

set_theta(th) ==
    /\ Running
    /\ calls' = calls + 1
    /\ theta_' = th
    /\ last' = Call("set_theta", th, "none")
    /\ UNCHANGED <<store, current_backend_, G_, softening_, collisions_enabled_,
                   build, pc>>
    /\ log' = NoLog

enable_collisions(enable) ==
    /\ Running
    /\ calls' = calls + 1
    /\ collisions_enabled_' = enable
    /\ last' = Call("enable_collisions", enable, "none")
    /\ UNCHANGED <<store, current_backend_, G_, softening_, theta_, build, pc>>
    /\ log' = NoLog

(* Getters: the array the host receives.  A getter fills get_particle_count rows;   *)
(* a row beyond the end of the vector it reads is a read outside the bounds, whose  *)
(* value g is whatever the memory holds.                                            *)
ReadOr(v, i, g) == IF i <= Len(v) THEN v[i] ELSE g

get_positions == Array2([i \in 1..Len(positions) |-> positions[i]])
get_velocities(g) == Array2([i \in 1..Len(positions) |-> ReadOr(velocities, i, <<g, g, g>>)])
get_masses(g) == Array1([i \in 1..Len(positions) |-> ReadOr(masses, i, g)])
get_types(g) == Array1([i \in 1..Len(positions) |-> ReadOr(types, i, g)])

-----------------------------------------------------------------------------
(* The octree (barnes_hut_tree.cpp).  A tree is a function from paths to     *)
(* nodes: the root is the empty path, the child of the node at path p in     *)
(* octant o is at Append(p, o), and children[o] is null when that path is    *)
(* not in the domain.                                                        *)

\* build_octree returning nullptr (no node is at path <<9>>)
NoTree == (<<9>> :> "nullptr")
\* the result of a construction whose recursion does not end (the stack overflows)
Unbounded == (<<8>> :> "unbounded recursion")
Root == <<>>
Octants == 0..7

\* OctreeNode::OctreeNode; center and size in TreeUnit-ths of a length unit
OctreeNode(c, s) ==
    [center |-> c, size |-> s, center_of_mass |-> Zero3, total_mass |-> 0,
     particle_index |-> -1]

is_leaf(node) == node.particle_index >= 0
is_empty(node) == node.particle_index < 0 /\ node.total_mass = 0

HasChild(t, path, o) == Append(path, o) \in DOMAIN t
HasChildren(t, path) == \E o \in Octants : HasChild(t, path, o)

get_octant(point, center) ==
      (IF point[1] * TreeUnit >= center[1] THEN 4 ELSE 0)
    + (IF point[2] * TreeUnit >= center[2] THEN 2 ELSE 0)
    + (IF point[3] * TreeUnit >= center[3] THEN 1 ELSE 0)

Bit4(octant) == octant \div 4 = 1
Bit2(octant) == (octant % 4) \div 2 = 1
Bit1(octant) == octant % 2 = 1

\* the child centre offset by half the parent's size instead of a quarter
OctantCenterHalf(parent_center, parent_size, octant) ==
    LET half_size == parent_size \div 2
    IN  << parent_center[1] + (IF Bit4(octant) THEN half_size ELSE -half_size),
           parent_center[2] + (IF Bit2(octant) THEN half_size ELSE -half_size),
           parent_center[3] + (IF Bit1(octant) THEN half_size ELSE -half_size) >>

get_octant_center(parent_center, parent_size, octant) ==
    LET half_size == parent_size \div 4
    IN  << parent_center[1] + (IF Bit4(octant) THEN half_size ELSE -half_size),
           parent_center[2] + (IF Bit2(octant) THEN half_size ELSE -half_size),
           parent_center[3] + (IF Bit1(octant) THEN half_size ELSE -half_size) >>

\* if (!node->children[octant]) node->children[octant] = make_unique<OctreeNode>(...)
MakeChild(t, path, octant) ==
    IF HasChild(t, path, octant) THEN t
    ELSE t @@ (Append(path, octant) :>
                 OctreeNode(get_octant_center(t[path].center, t[path].size, octant),
                            t[path].size \div 2))

RECURSIVE insert_particle_into_tree(_, _, _, _)
insert_particle_into_tree(t, path, particle_idx, pos) ==
    IF t = Unbounded \/ Len(path) > MaxDepth THEN Unbounded
    ELSE
    LET node == t[path] IN
    IF is_empty(node)
    THEN [t EXCEPT ![path].particle_index = particle_idx]
    ELSE
    LET subdivided ==
            IF is_leaf(node)
            THEN LET old_particle_idx == node.particle_index
                     octant == get_octant(pos[old_particle_idx + 1], node.center)
                 IN  insert_particle_into_tree(
                         MakeChild([t EXCEPT ![path].particle_index = -1], path, octant),
                         Append(path, octant), old_particle_idx, pos)
            ELSE t
    IN  IF subdivided = Unbounded THEN Unbounded
        ELSE LET octant == get_octant(pos[particle_idx + 1], node.center)
             IN  insert_particle_into_tree(MakeChild(subdivided, path, octant),
                                           Append(path, octant), particle_idx, pos)

Axis(pos, k) == {pos[i][k] : i \in 1..Len(pos)}
MinOf(S) == CHOOSE x \in S : \A y \in S : x <= y
MaxOf(S) == CHOOSE x \in S : \A y \in S : x >= y

RootCenter(pos) ==
    [k \in 1..3 |-> ((MinOf(Axis(pos, k)) + MaxOf(Axis(pos, k))) * TreeUnit) \div 2]

\* size = max extent, then size *= 1.1f (rounded to PadScale-ths)
RootSize(pos) ==
    LET extent == MaxOf({MaxOf(Axis(pos, k)) - MinOf(Axis(pos, k)) : k \in 1..3})
    IN  Quot(extent * 11 * PadScale, 10) * (TreeUnit \div PadScale)

RECURSIVE InsertAll(_, _, _)
InsertAll(t, i, pos) ==
    IF i >= Len(pos) THEN t
    ELSE InsertAll(insert_particle_into_tree(t, Root, i, pos), i + 1, pos)

build_octree(pos) ==
    IF Len(pos) = 0 THEN NoTree
    ELSE InsertAll((Root :> OctreeNode(RootCenter(pos), RootSize(pos))), 0, pos)

-----------------------------------------------------------------------------
(* Mass aggregation and force evaluation (barnes_hut_tree.cpp) *)

Add3(a, b) == <<a[1] + b[1], a[2] + b[2], a[3] + b[3]>>
Sub3(a, b) == <<a[1] - b[1], a[2] - b[2], a[3] - b[3]>>
Scale3(a, k) == <<a[1] * k, a[2] * k, a[3] * k>>
Quot3(a, d) == <<Quot(a[1], d), Quot(a[2], d), Quot(a[3], d)>>
Dot3(a, b) == a[1] * b[1] + a[2] * b[2] + a[3] * b[3]

RECURSIVE compute_node_mass_distribution(_, _, _, _)
RECURSIVE SumChildren(_, _, _, _, _)

\* the loop over children[0..7] of an internal node: aggregates each child, then
\* adds its mass and its mass-weighted center of mass; acc = [t, mass, weighted]
SumChildren(acc, path, i, ms, pos) ==
    IF i > 7 THEN acc
    ELSE IF ~HasChild(acc.t, path, i) THEN SumChildren(acc, path, i + 1, ms, pos)
    ELSE LET t1 == compute_node_mass_distribution(acc.t, Append(path, i), ms, pos)
             child == t1[Append(path, i)]
         IN  SumChildren([t |-> t1,
                          mass |-> acc.mass + child.total_mass,
                          weighted |-> Add3(acc.weighted,
                                            Scale3(child.center_of_mass, child.total_mass))],
                         path, i + 1, ms, pos)

compute_node_mass_distribution(t, path, ms, pos) ==
    LET node == t[path] IN
    IF is_leaf(node)
    THEN [t EXCEPT ![path].total_mass = ms[node.particle_index + 1],
                   ![path].center_of_mass = pos[node.particle_index + 1]]
    ELSE LET sum == SumChildren([t |-> t, mass |-> 0, weighted |-> Zero3],
                                path, 0, ms, pos)
         IN  [sum.t EXCEPT ![path].total_mass = sum.mass,
                           ![path].center_of_mass =
                               IF sum.mass > 0 THEN Quot3(sum.weighted, sum.mass)
                               ELSE node.center_of_mass]

\* the nodes compute_node_mass_distribution visits from the node at path
RECURSIVE Visited(_, _)
Visited(t, path) ==
    IF is_leaf(t[path]) THEN {path}
    ELSE {path} \cup UNION {Visited(t, Append(path, o)) :
                              o \in {o \in Octants : HasChild(t, path, o)}}

\* s / dist < theta_  (s in TreeUnit-ths, theta in ThetaScale-ths; dist > 0)
Opens(s, dist, th) == s * ThetaScale < th * dist * TreeUnit

RECURSIVE compute_acceleration_from_tree(_, _, _, _, _, _)
RECURSIVE VisitChildren(_, _, _, _, _, _, _)

\* the evaluation without its test for the particle's own leaf
EvaluateWithSelf(particle_idx, t, path, acceleration, pos, cfg) ==
    LET node == t[path] IN
    IF is_empty(node) THEN acceleration
    ELSE
    LET d == Sub3(node.center_of_mass, pos[particle_idx + 1])
        dist2 == Dot3(d, d) + cfg.softening * cfg.softening
        dist == ISqrt(dist2)
    IN  IF is_leaf(node) \/ Opens(node.size, dist, cfg.theta)
        THEN LET factor == Quot(cfg.G * node.total_mass * FScale, dist2 * dist)
             IN  [a |-> Add3(acceleration.a, Scale3(d, factor)),
                  terms |-> Append(acceleration.terms, path)]
        ELSE VisitChildren(particle_idx, t, path, 0, acceleration, pos, cfg)

\* acceleration = [a |-> the accumulated acceleration,
\*                 terms |-> the paths of the nodes used as point masses, in order]
compute_acceleration_from_tree(particle_idx, t, path, acceleration, pos, cfg) ==
    LET node == t[path] IN
    IF is_empty(node) THEN acceleration
    ELSE
    LET d == Sub3(node.center_of_mass, pos[particle_idx + 1])
        dist2 == Dot3(d, d) + cfg.softening * cfg.softening
        dist == ISqrt(dist2)
    IN  IF is_leaf(node) \/ Opens(node.size, dist, cfg.theta)
        THEN IF is_leaf(node) /\ node.particle_index = particle_idx
             THEN acceleration
             ELSE LET factor == Quot(cfg.G * node.total_mass * FScale, dist2 * dist)
                  IN  [a |-> Add3(acceleration.a, Scale3(d, factor)),
                       terms |-> Append(acceleration.terms, path)]
        ELSE VisitChildren(particle_idx, t, path, 0, acceleration, pos, cfg)

VisitChildren(particle_idx, t, path, i, acceleration, pos, cfg) ==
    IF i > 7 THEN acceleration
    ELSE VisitChildren(particle_idx, t, path, i + 1,
             IF HasChild(t, path, i)
             THEN compute_acceleration_from_tree(particle_idx, t, Append(path, i),
                                                 acceleration, pos, cfg)
             ELSE acceleration,
             pos, cfg)

NoAcceleration == [a |-> Zero3, terms |-> <<>>]

-----------------------------------------------------------------------------
(* The step pipeline (physics_engine.cpp) on a particle store                *)
(* st = [positions, velocities, accelerations, masses, types] whose arrays   *)
(* are all at least as long as positions; the loops run to particles_.size() *)
(* = Len(st.positions) and leave any further element of an array alone.      *)

\* the value of a float division by zero (inf or NaN)
NonFinite == 2147483647

\* for (i < particles_.size()) { accelerations[i] = 0; compute_acceleration_from_tree(i, ...) }
EvaluateAll(st, t, cfg) ==
    [i \in 1..Size(st) |->
        compute_acceleration_from_tree(i - 1, t, Root, NoAcceleration, st.positions, cfg)]

\* the loop of compute_accelerations_barnes_hut over the aggregated tree t
Evaluated(st, t, ev) ==
    [status |-> "done",
     st |-> [st EXCEPT !.accelerations =
                [i \in 1..Len(st.accelerations) |->
                    IF i <= Size(st) THEN ev[i].a ELSE st.accelerations[i]]],
     tree |-> t,
     terms |-> [i \in 1..Size(st) |-> ev[i].terms]]

AggregatedEvaluate(st, cfg, t) == Evaluated(st, t, EvaluateAll(st, t, cfg))

AccelerationsFrom(st, cfg, built) ==
    IF built = NoTree
    THEN [status |-> "done", st |-> st, tree |-> NoTree, terms |-> <<>>]
    ELSE IF built = Unbounded
    THEN [status |-> "unbounded", st |-> st, tree |-> Unbounded, terms |-> <<>>]
    ELSE AggregatedEvaluate(st, cfg,
             compute_node_mass_distribution(built, Root, st.masses, st.positions))

compute_accelerations_barnes_hut(st, cfg) ==
    AccelerationsFrom(st, cfg, build_octree(st.positions))

\* one component: x += v*dt + 0.5f*a*dt2 (rounded to a length unit); v += a*dt
VerletPosition(x, v, a, dt) == x + Quot(v * dt + Quot(a * (dt * dt), 2), FScale)
VerletVelocity(v, a, dt) == v + a * dt

\* the velocity updated first and the position advanced with the new velocity
IntegrateVelocityFirst(st, dt) ==
    [st EXCEPT
       !.positions = [i \in 1..Len(st.positions) |->
           [j \in 1..3 |-> VerletPosition(st.positions[i][j],
                                          VerletVelocity(st.velocities[i][j],
                                                         st.accelerations[i][j], dt),
                                          st.accelerations[i][j], dt)]],
       !.velocities = [i \in 1..Len(st.velocities) |->
           IF i <= Size(st)
           THEN [j \in 1..3 |-> VerletVelocity(st.velocities[i][j],
                                               st.accelerations[i][j], dt)]
           ELSE st.velocities[i]]]

integrate_verlet(st, dt) ==
    [st EXCEPT
       !.positions = [i \in 1..Len(st.positions) |->
           [j \in 1..3 |-> VerletPosition(st.positions[i][j], st.velocities[i][j],
                                          st.accelerations[i][j], dt)]],
       !.velocities = [i \in 1..Len(st.velocities) |->
           IF i <= Size(st)
           THEN [j \in 1..3 |-> VerletVelocity(st.velocities[i][j],
                                               st.accelerations[i][j], dt)]
           ELSE st.velocities[i]]]

\* the plain mean of the two velocities instead of the momentum-weighted one
MeanVelocity(vi, mi, vj, mj, total_mass) ==
    IF vi = NonFinite \/ vj = NonFinite \/ total_mass = 0 THEN NonFinite
    ELSE Quot(vi + vj, 2)

\* (v_i*m_i + v_j*m_j) / total_mass
MergedVelocity(vi, mi, vj, mj, total_mass) ==
    IF vi = NonFinite \/ vj = NonFinite \/ total_mass = 0 THEN NonFinite
    ELSE Quot(vi * mi + vj * mj, total_mass)

\* the merge without "masses[i] = total_mass"
CollidePairKeepMass(sc, pos, i, j, collision_dist2) ==
    IF j \in sc.removed THEN sc
    ELSE LET d == Sub3(pos[i + 1], pos[j + 1])
             dist2 == Dot3(d, d)
         IN  IF dist2 < collision_dist2
             THEN [velocities |-> [sc.velocities EXCEPT ![i + 1] =
                      [k \in 1..3 |-> MergedVelocity(sc.velocities[i + 1][k],
                                                     sc.masses[i + 1],
                                                     sc.velocities[j + 1][k],
                                                     sc.masses[j + 1],
                                                     sc.masses[i + 1] + sc.masses[j + 1])]],
                   masses |-> sc.masses,
                   removed |-> sc.removed \cup {j},
                   merges |-> Append(sc.merges, <<i, j>>)]
             ELSE sc

\* the body of the inner loop for the pair (i, j), 0-based;
\* sc = [velocities, masses, removed, merges]
CollidePair(sc, pos, i, j, collision_dist2) ==
    IF j \in sc.removed THEN sc
    ELSE LET d == Sub3(pos[i + 1], pos[j + 1])
             dist2 == Dot3(d, d)
         IN  IF dist2 < collision_dist2
             THEN LET total_mass == sc.masses[i + 1] + sc.masses[j + 1]
                  IN  [velocities |-> [sc.velocities EXCEPT ![i + 1] =
                           [k \in 1..3 |-> MergedVelocity(sc.velocities[i + 1][k],
                                                          sc.masses[i + 1],
                                                          sc.velocities[j + 1][k],
                                                          sc.masses[j + 1], total_mass)]],
                       masses |-> [sc.masses EXCEPT ![i + 1] = total_mass],
                       removed |-> sc.removed \cup {j},
                       merges |-> Append(sc.merges, <<i, j>>)]
             ELSE sc

RECURSIVE ScanInner(_, _, _, _, _, _)
ScanInner(sc, pos, i, j, n, collision_dist2) ==
    IF j >= n THEN sc
    ELSE ScanInner(CollidePair(sc, pos, i, j, collision_dist2), pos, i, j + 1, n,
                   collision_dist2)

\* the outer loop without "if (removed[i]) continue"
RECURSIVE ScanOuterUnguarded(_, _, _, _, _)
ScanOuterUnguarded(sc, pos, i, n, collision_dist2) ==
    IF i >= n THEN sc
    ELSE ScanOuterUnguarded(ScanInner(sc, pos, i, i + 1, n, collision_dist2),
                            pos, i + 1, n, collision_dist2)

RECURSIVE ScanOuter(_, _, _, _, _)
ScanOuter(sc, pos, i, n, collision_dist2) ==
    IF i >= n THEN sc
    ELSE ScanOuter(IF i \in sc.removed THEN sc
                   ELSE ScanInner(sc, pos, i, i + 1, n, collision_dist2),
                   pos, i + 1, n, collision_dist2)

\* the removals applied in ascending index order, k = 0 .. n - 1
RECURSIVE RemoveAscendingFrom(_, _, _, _)
RemoveAscendingFrom(st, removed, k, n) ==
    IF k >= n THEN st
    ELSE RemoveAscendingFrom(IF k \in removed THEN RemoveParticle(st, k) ELSE st,
                             removed, k + 1, n)

RemoveMarkedAscending(st, removed, i) == RemoveAscendingFrom(st, removed, 0, i)

\* for (i = particles_.size(); i-- > 0;) if (removed[i]) remove_particle(i);
RECURSIVE RemoveMarked(_, _, _)
RemoveMarked(st, removed, i) ==
    IF i = 0 THEN st
    ELSE RemoveMarked(IF (i - 1) \in removed THEN RemoveParticle(st, i - 1) ELSE st,
                      removed, i - 1)

\* the scan's writes to velocities and masses, then the removals
Collided(st, sc, scanned) ==
    [st |-> RemoveMarked(scanned, sc.removed, Size(st)),
     scanned |-> scanned, removed |-> sc.removed, merges |-> sc.merges]

Scanned(st, sc) ==
    Collided(st, sc, [st EXCEPT !.velocities = sc.velocities, !.masses = sc.masses])

handle_collisions(st, cfg) ==
    Scanned(st, ScanOuter([velocities |-> st.velocities, masses |-> st.masses,
                           removed |-> {}, merges |-> <<>>],
                          st.positions, 0, Size(st),
                          (cfg.softening * 2) * (cfg.softening * 2)))

\* the record of a step: the result and what each phase did
StepDone(acc, integrated, col, cfg) ==
    [status |-> "done", st |-> col.st, tree |-> acc.tree, terms |-> acc.terms,
     evaluated |-> acc.st, integrated |-> integrated, collided |-> cfg.collisions,
     scanned |-> col.scanned, removed |-> col.removed, merges |-> col.merges]

\* the collision pass run whatever collisions_enabled_ says
AlwaysCollide(acc, integrated, cfg) ==
    StepDone(acc, integrated, handle_collisions(integrated, cfg), cfg)

\* if (collisions_enabled_) handle_collisions();
CollidePhase(acc, integrated, cfg) ==
    StepDone(acc, integrated,
             IF cfg.collisions
             THEN handle_collisions(integrated, cfg)
             ELSE [st |-> integrated, scanned |-> integrated, removed |-> {},
                   merges |-> <<>>],
             cfg)

IntegratePhase(st, acc, dt, cfg) ==
    IF acc.status = "unbounded"
    THEN [status |-> "unbounded", st |-> st, tree |-> acc.tree, terms |-> <<>>,
          evaluated |-> st, integrated |-> st, collided |-> FALSE,
          scanned |-> st, removed |-> {}, merges |-> <<>>]
    ELSE CollidePhase(acc, integrate_verlet(acc.st, dt), cfg)

\* the phases in another order: integration first, then the accelerations
IntegratedThenEvaluated(st, acc, cfg) ==
    IF acc.status = "unbounded"
    THEN [status |-> "unbounded", st |-> st, tree |-> acc.tree, terms |-> <<>>,
          evaluated |-> st, integrated |-> st, collided |-> FALSE,
          scanned |-> st, removed |-> {}, merges |-> <<>>]
    ELSE CollidePhase(acc, acc.st, cfg)

StepIntegrateFirst(st, dt, cfg) ==
    IntegratedThenEvaluated(st,
        compute_accelerations_barnes_hut(integrate_verlet(st, dt), cfg), cfg)

\* step_cpu_single_thread / step_cpu_openmp: accelerations, integration, collisions
step_cpu(st, dt, cfg) ==
    IntegratePhase(st, compute_accelerations_barnes_hut(st, cfg), dt, cfg)

-----------------------------------------------------------------------------
(* Defaults (PhysicsEngine::PhysicsEngine) and the values the host passes *)


HostPositions == {<<0, 0, 0>>, <<3, 0, 0>>}
HostVelocities == {<<0, 0, 0>>, <<FScale, 0, 0>>}
HostMasses == {1, 2}
HostTypes == {0, 2}
HostTags == {"single", "openmp", "cuda", "opengl", "metal"}
HostDt == {1}
HostG == {1, 2}
HostSoftening == {2, 3}
HostTheta == {0, DefaultTheta}
\* what a read outside a vector's bounds may find: zero, or a value the size of
\* a velocity of two length units per time unit
Garbage == {0, 2 * FScale}
Builds == {[cuda |-> FALSE, opengl |-> FALSE], [cuda |-> TRUE, opengl |-> TRUE]}

PositionBuffers ==
    {Array2(rows) : rows \in SeqsUpTo(HostPositions, MaxN)}
    \cup {Array1(<<3, 0, 0>>), [ndim |-> 2, shape |-> <<1, 2>>, data |-> <<3, 0>>]}
VelocityBuffers ==
    {Array2(rows) : rows \in SeqsUpTo(HostVelocities, MaxN)}
    \cup {Array1(<<FScale, 0, 0>>), [ndim |-> 2, shape |-> <<1, 2>>, data |-> <<FScale, 0>>]}
MassBuffers ==
    {Array1(vals) : vals \in SeqsUpTo(HostMasses, MaxN)}
    \cup {Array2(<< <<1, 2, 1>> >>)}
TypeBuffers ==
    {Array1(vals) : vals \in SeqsUpTo(HostTypes, MaxN)}
    \cup {Array2(<< <<0, 2, 0>> >>)}
\* the arguments of add_particle: 3-element buffers of either shape, or a 2-element one
HostParticles ==
    { <<Array1(<<0, 0, 0>>), Array1(<<FScale, 0, 0>>), 1, 0>>,
      <<Array2(<< <<3, 0, 0>> >>), Array1(<<0, 0, 0>>), 2, 2>>,
      <<Array1(<<3, 0>>), Array1(<<0, 0, 0>>), 1, 0>>,
      <<Array1(<<3, 0, 0>>), Array1(<<FScale, 0>>), 1, 0>> }

-----------------------------------------------------------------------------
(* PhysicsEngine::step: the dispatch and, when the arrays differ in length,  *)
(* the accesses outside a vector's bounds.  Such an access is undefined      *)
(* behaviour: the process may die, or go on with whatever the memory beyond  *)
(* the vector holds (g) and with its writes there lost to the vector.        *)

Repeat(x, n) == [i \in 1..n |-> x]
Pad(v, n, g) == IF Len(v) < n THEN v \o Repeat(g, n - Len(v)) ELSE v

PadStore(st, g) ==
    MkStore(st.positions,
            Pad(st.velocities, Size(st), <<g, g, g>>),
            Pad(st.accelerations, Size(st), <<g, g, g>>),
            Pad(st.masses, Size(st), g),
            Pad(st.types, Size(st), g))

\* what is left in a vector of length len0 < n after a step that ran on the padded copy
Unpad(v, len0, n, removed) ==
    IF len0 >= n THEN v
    ELSE SubSeq(v, 1, len0 - Cardinality({e \in removed : e < len0}))

UnpadStore(r, st0, removed) ==
    MkStore(r.positions,
            Unpad(r.velocities, Len(st0.velocities), Size(st0), removed),
            Unpad(r.accelerations, Len(st0.accelerations), Size(st0), removed),
            Unpad(r.masses, Len(st0.masses), Size(st0), removed),
            Unpad(r.types, Len(st0.types), Size(st0), removed))

\* the 0-based indices step reads or writes in each array
MassIndices(r) ==
    {r.tree[p].particle_index : p \in {q \in Visited(r.tree, Root) : is_leaf(r.tree[q])}}
    \cup {r.merges[k][1] : k \in 1..Len(r.merges)}
    \cup {r.merges[k][2] : k \in 1..Len(r.merges)}

OutOfBounds(r, st0) ==
    /\ r.status = "done"
    /\ Size(st0) > 0
    /\ \/ Len(st0.velocities) < Size(st0)
       \/ Len(st0.accelerations) < Size(st0)
       \/ \E i \in MassIndices(r) : i >= Len(st0.masses)
       \/ \E e \in r.removed : e >= Len(st0.types)

StepLog(r, st0, ran) ==
    [ran |-> ran, pre |-> st0, tree |-> r.tree, terms |-> r.terms,
     evaluated |-> r.evaluated, integrated |-> r.integrated, collided |-> r.collided,
     scanned |-> r.scanned, removed |-> r.removed, merges |-> r.merges, post |-> r.st]

IsFinite(st) ==
    \A i \in 1..Len(st.velocities) : \A k \in 1..3 : st.velocities[i][k] # NonFinite

InCoordRange(st) ==
    \A i \in 1..Len(st.positions) : \A k \in 1..3 : Abs(st.positions[i][k]) <= CoordMax

\* step() with the build's USE_OPENGL_COMPUTE: step_opengl_compute only prints
RunsPipeline == ~(current_backend_ = "OPENGL_COMPUTE" /\ build.opengl)

\* the arrays after the step, and how the call ends
StepCommit(r, out, dt) ==
    /\ positions' = out.positions
    /\ velocities' = out.velocities
    /\ accelerations' = out.accelerations
    /\ masses' = out.masses
    /\ types' = out.types
    /\ log' = StepLog(r, Store, TRUE)
    /\ IF r.status = "unbounded"
       THEN /\ last' = Call("step", dt, "stack overflow")
            /\ pc' = "crashed"
       ELSE IF OutOfBounds(r, Store)
       THEN /\ last' = CallUB("step", dt)
            /\ pc' \in {"idle", "crashed"}
       ELSE /\ last' = Call("step", dt, "none")
            /\ pc' = pc

StepOutcome(r, dt) == StepCommit(r, UnpadStore(r.st, Store, r.removed), dt)

step(dt) ==
    /\ Running
    /\ calls' = calls + 1
    /\ IsFinite(Store) /\ InCoordRange(Store)
    /\ UNCHANGED <<config, build>>
    /\ IF ~RunsPipeline
       THEN /\ last' = Call("step", dt, "none")
            /\ log' = [ran |-> FALSE, pre |-> Store, post |-> Store]
            /\ UNCHANGED <<store, pc>>
       ELSE \E g \in Garbage : StepOutcome(step_cpu(PadStore(Store, g), dt, Config), dt)

-----------------------------------------------------------------------------
(* The host-API model: a new engine and any sequence of host calls, with     *)
(* buffers of up to MaxN rows over a few values.                             *)

Init ==
    /\ positions = <<>> /\ velocities = <<>> /\ accelerations = <<>>
    /\ masses = <<>> /\ types = <<>>
    /\ current_backend_ = "CPU_OPENMP"
    /\ G_ = DefaultG
    /\ softening_ = DefaultSoftening
    /\ theta_ = DefaultTheta
    /\ collisions_enabled_ = FALSE
    /\ build \in Builds
    /\ last = Call("PhysicsEngine", NoArg, "none")
    /\ log = NoLog
    /\ calls = 0
    /\ pc = "idle"

Next ==
    \/ \E n \in 0..MaxN, tag \in HostTags : initialize(n, tag)
    \/ \E tag \in HostTags : set_backend(tag)
    \/ \E buf \in PositionBuffers : set_positions(buf)
    \/ \E buf \in VelocityBuffers : set_velocities(buf)
    \/ \E buf \in MassBuffers : set_masses(buf)
    \/ \E buf \in TypeBuffers : set_types(buf)
    \/ \E p \in HostParticles : add_particle(p[1], p[2], p[3], p[4])
    \/ \E index \in 0..MaxN : remove_particle(index)
    \/ reset
    \/ \E dt \in HostDt : step(dt)
    \/ \E G \in HostG : set_gravitational_constant(G)
    \/ \E epsilon \in HostSoftening : set_softening_length(epsilon)
    \/ \E th \in HostTheta : set_theta(th)
    \/ \E enable \in BOOLEAN : enable_collisions(enable)

Spec == Init /\ [][Next]_vars

-----------------------------------------------------------------------------
(* The step model: an engine whose five arrays hold the same N <= MaxParticles *)
(* particles (as after initialize and the four bulk setters, or N calls of     *)
(* add_particle), on the default backend, stepped repeatedly.                  *)

MaxParticles == 3

\* two approaching bodies 1.5 softening lengths apart, a third body near both,
\* a distant one, and two massless tracers
StepParticles ==
    { [pos |-> <<0, 0, 0>>, vel |-> <<FScale, 0, 0>>, mass |-> 1],
      [pos |-> <<3, 0, 0>>, vel |-> <<-FScale, 0, 0>>, mass |-> 2],
      [pos |-> <<0, 3, 0>>, vel |-> <<0, 0, 0>>, mass |-> 1],
      [pos |-> <<40, -20, 10>>, vel |-> <<0, 0, 0>>, mass |-> 2],
      [pos |-> <<1, 1, 0>>, vel |-> <<0, 0, 0>>, mass |-> 0],
      [pos |-> <<1, 0, 1>>, vel |-> <<0, 0, 0>>, mass |-> 0] }

StepDt == {1, 4}

InitStep ==
    \E ps \in SeqsUpTo(StepParticles, MaxParticles) :
        /\ positions = [i \in 1..Len(ps) |-> ps[i].pos]
        /\ velocities = [i \in 1..Len(ps) |-> ps[i].vel]
        /\ accelerations = [i \in 1..Len(ps) |-> Zero3]
        /\ masses = [i \in 1..Len(ps) |-> ps[i].mass]
        /\ types = [i \in 1..Len(ps) |-> 0]
        /\ current_backend_ = "CPU_OPENMP"
        /\ G_ = DefaultG
        /\ softening_ = DefaultSoftening
        /\ theta_ \in HostTheta
        /\ collisions_enabled_ \in BOOLEAN
        /\ build = [cuda |-> FALSE, opengl |-> FALSE]
        /\ last = Call("initialize", <<Len(ps), "openmp">>, "none")
        /\ log = NoLog
        /\ calls = 0
        /\ pc = "idle"

NextStep ==
    \/ \E dt \in StepDt : step(dt)
    \/ reset

SpecStep == InitStep /\ [][NextStep]_vars

-----------------------------------------------------------------------------
(* The parallel model: step_cpu_openmp in a build with USE_OPENMP.  The tree  *)
(* is built and aggregated by the calling thread; each iteration i of the two *)
(* "#pragma omp parallel for" loops is a worker that the runtime may schedule *)
(* in any order relative to the other iterations; the end of each loop is a   *)
(* barrier; collisions run on the calling thread after the second barrier.    *)
(* pc is "evaluate" or "integrate" while the workers of a loop run, and log   *)
(* holds the step in flight: the store it started from, dt, the tree, each    *)
(* worker's position in its iteration, and the cells each worker has read and *)
(* written.  The five arrays have the same length here.                       *)

ParParticles ==
    { [pos |-> <<0, 0, 0>>, vel |-> <<FScale, 0, 0>>, mass |-> 1],
      [pos |-> <<3, 0, 0>>, vel |-> <<-FScale, 0, 0>>, mass |-> 2],
      [pos |-> <<0, 3, 0>>, vel |-> <<0, 0, 0>>, mass |-> 1] }

Workers == DOMAIN log.at

\* element i of an array, or node path of the tree
Cell(array, i) == <<array, i>>

TreeCells(t) == {Cell("tree", path) : path \in DOMAIN t}

\* the barrier removed: the thread goes on while iterations are still to run
NoBarrier(at, steps) == TRUE

\* the implicit barrier at the end of a parallel for: every iteration has finished
AllJoined(at, steps) == \A i \in DOMAIN at : at[i] = steps

ParLog(st0, dt, t) ==
    [pre |-> st0, dt |-> dt, tree |-> t,
     at |-> [i \in 0..(Size(st0) - 1) |-> 0],
     reads |-> [i \in 0..(Size(st0) - 1) |-> {}],
     writes |-> [i \in 0..(Size(st0) - 1) |-> {}],
     evaluated |-> st0.accelerations,
     reordered |-> FALSE]

\* the iterations a loop has in all
Iterations == IF pc = "evaluate" THEN 2 ELSE 3

\* worker i takes a step; reordered records that it did so before a worker of
\* lower index had finished, which the serial loop never does
Accessed(i, rd, wr) ==
    [log EXCEPT !.at[i] = @ + 1,
                !.reordered = @ \/ \E k \in 0..(i - 1) : log.at[k] < Iterations,
                !.reads[i] = @ \cup rd,
                !.writes[i] = @ \cup wr]

\* step -> step_cpu_openmp -> compute_accelerations_barnes_hut up to the loop
ForkEvaluate(dt, built) ==
    IF built = Unbounded
    THEN /\ last' = Call("step", dt, "stack overflow")
         /\ pc' = "crashed"
         /\ log' = ParLog(Store, dt, Unbounded)
    ELSE /\ last' = Call("step", dt, "running")
         /\ pc' = "evaluate"
         /\ log' = ParLog(Store, dt,
                          IF built = NoTree THEN NoTree
                          ELSE compute_node_mass_distribution(built, Root, masses,
                                                              positions))

BeginStep(dt) ==
    /\ Running
    /\ calls' = calls + 1
    /\ current_backend_ = "CPU_OPENMP"
    /\ IsFinite(Store) /\ InCoordRange(Store)
    /\ ForkEvaluate(dt, build_octree(positions))
    /\ UNCHANGED <<store, config, build>>

\* iteration i of the evaluation loop: accelerations[i] = {0,0,0}, then
\* compute_acceleration_from_tree(i, tree, accelerations[i])
EvaluateWorker(i) ==
    /\ pc = "evaluate"
    /\ log.at[i] < 2
    /\ IF log.at[i] = 0
       THEN /\ accelerations' = [accelerations EXCEPT ![i + 1] = Zero3]
            /\ log' = Accessed(i, {}, {Cell("accelerations", i)})
       ELSE /\ accelerations' = [accelerations EXCEPT ![i + 1] =
                   compute_acceleration_from_tree(i, log.tree, Root,
                       [a |-> accelerations[i + 1], terms |-> <<>>],
                       positions, Config).a]
            /\ log' = Accessed(i,
                               {Cell("positions", i), Cell("accelerations", i)}
                                   \cup TreeCells(log.tree),
                               {Cell("accelerations", i)})
    /\ UNCHANGED <<positions, velocities, masses, types, config, build, last, calls, pc>>

\* the end of the evaluation loop; integrate_verlet starts its own loop
JoinEvaluate ==
    /\ pc = "evaluate"
    /\ AllJoined(log.at, 2)
    /\ pc' = "integrate"
    /\ log' = [log EXCEPT !.at = [i \in DOMAIN log.at |-> 0],
                          !.evaluated = accelerations]
    /\ UNCHANGED <<store, config, build, last, calls>>

\* iteration i of the integration loop, one component j at a time
IntegrateWorker(i) ==
    /\ pc = "integrate"
    /\ log.at[i] < 3
    /\ positions' = [positions EXCEPT ![i + 1][log.at[i] + 1] =
           VerletPosition(@, velocities[i + 1][log.at[i] + 1],
                          accelerations[i + 1][log.at[i] + 1], log.dt)]
    /\ velocities' = [velocities EXCEPT ![i + 1][log.at[i] + 1] =
           VerletVelocity(@, accelerations[i + 1][log.at[i] + 1], log.dt)]
    /\ log' = Accessed(i,
                       {Cell("positions", i), Cell("velocities", i),
                        Cell("accelerations", i)},
                       {Cell("positions", i), Cell("velocities", i)})
    /\ UNCHANGED <<accelerations, masses, types, config, build, last, calls, pc>>

StoreIs(st) ==
    /\ positions' = st.positions
    /\ velocities' = st.velocities
    /\ accelerations' = st.accelerations
    /\ masses' = st.masses
    /\ types' = st.types

\* the end of the integration loop, handle_collisions on the calling thread,
\* and the return of step
JoinIntegrate ==
    /\ pc = "integrate"
    /\ AllJoined(log.at, 3)
    /\ pc' = "idle"
    /\ last' = Call("step", log.dt, "none")
    /\ StoreIs(IF collisions_enabled_ THEN handle_collisions(Store, Config).st
               ELSE Store)
    /\ UNCHANGED <<config, build, log, calls>>

InitPar ==
    \E ps \in SeqsUpTo(ParParticles, MaxParticles) :
        /\ positions = [i \in 1..Len(ps) |-> ps[i].pos]
        /\ velocities = [i \in 1..Len(ps) |-> ps[i].vel]
        /\ accelerations = [i \in 1..Len(ps) |-> Zero3]
        /\ masses = [i \in 1..Len(ps) |-> ps[i].mass]
        /\ types = [i \in 1..Len(ps) |-> 0]
        /\ current_backend_ = "CPU_OPENMP"
        /\ G_ = DefaultG
        /\ softening_ = DefaultSoftening
        /\ theta_ = DefaultTheta
        /\ collisions_enabled_ \in BOOLEAN
        /\ build = [cuda |-> FALSE, opengl |-> FALSE]
        /\ last = Call("initialize", <<Len(ps), "openmp">>, "none")
        /\ log = ParLog(Store, 0, NoTree)
        /\ calls = 0
        /\ pc = "idle"

NextPar ==
    \/ \E dt \in StepDt : BeginStep(dt)
    \/ \E i \in Workers : EvaluateWorker(i)
    \/ JoinEvaluate
    \/ \E i \in Workers : IntegrateWorker(i)
    \/ JoinIntegrate

SpecPar == InitPar /\ [][NextPar]_vars

-----------------------------------------------------------------------------
(* The parameter model: an engine holding up to MaxN particles whose          *)
(* parameters are the constructor's or were all set before, in either build,  *)
(* under the five parameter setters and step.                                 *)

\* theta 0.5 and theta 2.0
ParamTheta == {DefaultTheta, 4 * DefaultTheta}

ParamConfigs ==
    {DefaultConfig,
     [G |-> 2, softening |-> 3, theta |-> 4 * DefaultTheta, collisions |-> TRUE]}

InitParams ==
    \E ps \in SeqsUpTo(ParParticles, MaxN), cfg \in ParamConfigs :
        /\ positions = [i \in 1..Len(ps) |-> ps[i].pos]
        /\ velocities = [i \in 1..Len(ps) |-> ps[i].vel]
        /\ accelerations = [i \in 1..Len(ps) |-> Zero3]
        /\ masses = [i \in 1..Len(ps) |-> ps[i].mass]
        /\ types = [i \in 1..Len(ps) |-> 0]
        /\ current_backend_ = "CPU_OPENMP"
        /\ G_ = cfg.G
        /\ softening_ = cfg.softening
        /\ theta_ = cfg.theta
        /\ collisions_enabled_ = cfg.collisions
        /\ build \in Builds
        /\ last = Call("initialize", <<Len(ps), "openmp">>, "none")
        /\ log = NoLog
        /\ calls = 0
        /\ pc = "idle"

NextParams ==
    \/ \E G \in HostG : set_gravitational_constant(G)
    \/ \E epsilon \in HostSoftening : set_softening_length(epsilon)
    \/ \E th \in ParamTheta : set_theta(th)
    \/ \E enable \in BOOLEAN : enable_collisions(enable)
    \/ \E tag \in HostTags : set_backend(tag)
    \/ \E dt \in HostDt : step(dt)

SpecParams == InitParams /\ [][NextParams]_vars

-----------------------------------------------------------------------------
(* The sizing model: a new engine, or one holding up to MaxParticles           *)
(* particles, under step and initialize; initialize is met after a step has    *)
(* left accelerations other than zero in the store.                            *)

InitSized == Init \/ InitPar

NextSized ==
    \/ \E n \in 0..MaxParticles, tag \in HostTags : initialize(n, tag)
    \/ \E dt \in HostDt : step(dt)

SpecSized == InitSized /\ [][NextSized]_vars

-----------------------------------------------------------------------------
(* Properties of the host API (Spec) and of the step pipeline (SpecStep) *)

\* C1: in every state reachable by host operations the position, velocity,
\* acceleration, mass and type arrays have the same length, get_particle_count
ArraysHaveEqualLength ==
    /\ Len(positions) = get_particle_count
    /\ Len(velocities) = get_particle_count
    /\ Len(accelerations) = get_particle_count
    /\ Len(masses) = get_particle_count
    /\ Len(types) = get_particle_count

\* C2: a call of step completes without error: it indexes no array outside its
\* bounds and the process does not die in it
StepNeverFails ==
    last.op = "step" => (~last.ub /\ last.err = "none" /\ pc = "idle")

\* the last call was a step that ran the CPU pipeline to its end
StepRan == last.op = "step" /\ last.err = "none" /\ log.ran

DistinctPositions(pos) == \A i, j \in 1..Len(pos) : i # j => pos[i] # pos[j]

\* the k-th point-mass term of acceleration[i] is particle j's mass at its position
TermIs(i, k, j) ==
    LET node == log.tree[log.terms[i + 1][k]]
    IN  /\ is_leaf(node)
        /\ node.particle_index = j
        /\ node.total_mass = log.pre.masses[j + 1]
        /\ node.center_of_mass = log.pre.positions[j + 1]

\* particle j's leaf is one of the terms of acceleration[i]
Contributes(j, i) ==
    \E k \in 1..Len(log.terms[i + 1]) :
        LET node == log.tree[log.terms[i + 1][k]]
        IN  is_leaf(node) /\ node.particle_index = j

\* C3: with theta = 0 and pairwise distinct positions, the terms accumulated into
\* acceleration[i] by a step are exactly one per other particle j, and none for i
\* (a particle without mass, whose term is zero, may be left out)
DirectSumAtThetaZero ==
    (StepRan /\ theta_ = 0 /\ DistinctPositions(log.pre.positions)) =>
        LET n == Len(log.pre.positions)
            others(i) == (0..(n - 1)) \ {i}
        IN  \A i \in 0..(n - 1) :
                /\ \A k \in 1..Len(log.terms[i + 1]) : \E j \in others(i) : TermIs(i, k, j)
                /\ \A j \in others(i) :
                       Cardinality({k \in 1..Len(log.terms[i + 1]) : TermIs(i, k, j)})
                           \in (IF log.pre.masses[j + 1] > 0 THEN {1} ELSE {0, 1})
                /\ ~Contributes(i, i)

\* C4: with theta = 0 the forces of a step are Newton-symmetric: particle j
\* contributes to acceleration[i] exactly when particle i contributes to
\* acceleration[j], for every pair i # j of particles with mass (at pairwise
\* distinct positions)
NewtonSymmetricAtThetaZero ==
    (StepRan /\ theta_ = 0 /\ DistinctPositions(log.pre.positions)) =>
        \A i, j \in 0..(Len(log.pre.positions) - 1) :
            (i # j /\ log.pre.masses[i + 1] > 0 /\ log.pre.masses[j + 1] > 0)
                => (Contributes(j, i) <=> Contributes(i, j))

\* C5: a particle's own leaf is never a term of its acceleration; with N = 1 a
\* step leaves the acceleration zero and the velocity unchanged, and advances the
\* position by velocity*dt
NoSelfForce ==
    StepRan =>
        /\ \A i \in 0..(Len(log.pre.positions) - 1) : ~Contributes(i, i)
        /\ Len(log.pre.positions) = 1 =>
              /\ accelerations = <<Zero3>>
              /\ velocities = log.pre.velocities
              /\ positions = << [k \in 1..3 |->
                                   log.pre.positions[1][k]
                                   + Quot(log.pre.velocities[1][k] * last.arg, FScale)] >>
              /\ masses = log.pre.masses

\* a step of a single moving particle
NoSelfForceWitness ==
    /\ StepRan
    /\ Len(log.pre.positions) = 1
    /\ log.pre.velocities[1] # Zero3
    /\ positions # log.pre.positions

\* the last call was a step whose collision pass ran
CollisionPassRan == StepRan /\ log.collided

\* the squared distance of particles i and j (0-based) when the collision pass runs
PassDist2(i, j) ==
    LET d == Sub3(log.integrated.positions[i + 1], log.integrated.positions[j + 1])
    IN  Dot3(d, d)

MergeRadius2 == (2 * softening_) * (2 * softening_)

\* mass and velocity m, v after absorbing a particle of mass mj and velocity vj
Absorb(m, v, mj, vj) ==
    [m |-> m + mj,
     v |-> [k \in 1..3 |->
              IF m + mj = 0 \/ v[k] = NonFinite \/ vj[k] = NonFinite THEN NonFinite
              ELSE Quot(m * v[k] + mj * vj[k], m + mj)]]

\* mass and velocity of particle i after the merges k.. of the pass, from acc
RECURSIVE AfterMerges(_, _, _)
AfterMerges(i, k, acc) ==
    IF k > Len(log.merges) THEN acc
    ELSE IF log.merges[k][1] # i THEN AfterMerges(i, k + 1, acc)
    ELSE AfterMerges(i, k + 1,
                     Absorb(acc.m, acc.v,
                            log.integrated.masses[log.merges[k][2] + 1],
                            log.integrated.velocities[log.merges[k][2] + 1]))

\* the index after the pass of a particle i that was not removed
IndexAfterPass(i) == i - Cardinality({r \in log.removed : r < i})

\* the two bodies of the merge example: masses 1 and 2, velocities (1,0,0) and
\* (-1,0,0), 1.5 softening lengths apart
MergeExample ==
    /\ 2 * 3 = 3 * softening_
    /\ log.pre.positions = << <<0, 0, 0>>, <<3, 0, 0>> >>
    /\ log.pre.velocities = << <<FScale, 0, 0>>, <<-FScale, 0, 0>> >>
    /\ log.pre.masses = <<1, 2>>

MergeExampleMerged ==
    /\ Len(positions) = 1
    /\ masses = <<3>>
    /\ velocities = << <<Quot(-FScale, 3), 0, 0>> >>

\* each pair (i, j) the pass merged had i < j closer than 2*softening after the
\* integration; particle i has absorbed, in order, the mass and momentum of each j
\* merged into it and keeps its position, and each j is gone from the store
MergeLawOfPass ==
    LET n == Len(log.integrated.positions)
    IN  /\ \A k \in 1..Len(log.merges) :
               /\ log.merges[k][1] < log.merges[k][2]
               /\ PassDist2(log.merges[k][1], log.merges[k][2]) < MergeRadius2
               /\ log.merges[k][1] \notin log.removed
        /\ log.removed = {log.merges[k][2] : k \in 1..Len(log.merges)}
        /\ Len(log.merges) = Cardinality(log.removed)
        /\ Len(positions) = n - Cardinality(log.removed)
        /\ Len(masses) = Len(positions) /\ Len(velocities) = Len(positions)
        /\ \A i \in (0..(n - 1)) \ log.removed :
               LET after == AfterMerges(i, 1, [m |-> log.integrated.masses[i + 1],
                                                v |-> log.integrated.velocities[i + 1]])
               IN  /\ positions[IndexAfterPass(i) + 1] = log.integrated.positions[i + 1]
                   /\ masses[IndexAfterPass(i) + 1] = after.m
                   /\ velocities[IndexAfterPass(i) + 1] = after.v

\* C6 (as stated): the merge law holds, and one step of the two bodies of the
\* example, whatever its dt, leaves N = 1, mass 3, velocity (-1/3, 0, 0)
MergeLawAnyStep ==
    CollisionPassRan => (MergeLawOfPass /\ (MergeExample => MergeExampleMerged))

\* C6 (amended): the merge law holds for the masses and velocities the particles
\* have when the pass runs, after the integration; one step of the two bodies of
\* the example leaves N = 1, mass 3, velocity (-1/3, 0, 0) when the integration
\* leaves them closer than 2*softening, and leaves both in the store otherwise
MergeLaw ==
    CollisionPassRan =>
        /\ MergeLawOfPass
        /\ MergeExample =>
              IF PassDist2(0, 1) < MergeRadius2
              THEN MergeExampleMerged
              ELSE Len(positions) = 2 /\ masses = <<1, 2>>

\* the step of the example that merges the two bodies
MergeLawWitness ==
    /\ CollisionPassRan
    /\ MergeExample
    /\ log.merges = << <<0, 1>> >>
    /\ MergeExampleMerged

\* the last call was a set_X that returned
Returned(op) == last.op = op /\ last.err = "none"

\* C7: from any state, set_X(buf) followed by get_X() returns an array with the
\* rows and values of buf, for X in positions, velocities, masses and types
SetGetRoundTrip ==
    \A g \in Garbage :
        /\ Returned("set_positions") => get_positions = last.arg
        /\ Returned("set_velocities") => get_velocities(g) = last.arg
        /\ Returned("set_masses") => get_masses(g) = last.arg
        /\ Returned("set_types") => get_types(g) = last.arg

ShapeErrors ==
    {"Positions must be (N, 3) array", "Velocities must be (N, 3) array",
     "Masses must be (N,) array", "Types must be (N,) array",
     "Position and velocity must be size 3"}

\* the last call passed a buffer of the wrong shape
BadShapeCall ==
    \/ last.op \in {"set_positions", "set_velocities"}
          /\ (last.arg.ndim # 2 \/ last.arg.shape[2] # 3)
    \/ last.op \in {"set_masses", "set_types"} /\ last.arg.ndim # 1
    \/ last.op = "add_particle"
          /\ (BufSize(last.arg[1]) # 3 \/ BufSize(last.arg[2]) # 3)

\* C9: a bulk setter or add_particle given a buffer of the wrong shape raises its
\* shape error, and a call that raises one leaves the five arrays, the particle
\* count and the configuration as they were
ShapeErrorLeavesEngineUnchanged ==
    [][/\ BadShapeCall' => last'.err \in ShapeErrors
       /\ last'.err \in ShapeErrors =>
             (BadShapeCall' /\ UNCHANGED <<store, config>>
              /\ get_particle_count' = get_particle_count)]_vars

\* a shape error raised on an engine that holds particles
ShapeErrorWitness ==
    /\ last.err \in ShapeErrors
    /\ BadShapeCall
    /\ get_particle_count > 0
    /\ Len(masses) > 0

BackendTags == {"single", "openmp", "cuda", "opengl"}

\* the tag passed to the last call, an initialize or a set_backend
LastTag == IF last.op = "initialize" THEN last.arg[2] ELSE last.arg

\* C10: initialize and set_backend accept the tags single, openmp, cuda and opengl,
\* after which get_backend returns the tag; any other tag raises the unknown-backend
\* error and leaves the backend, the arrays and the particle count unchanged
BackendTagContract ==
    [][last'.op \in {"initialize", "set_backend"} =>
          IF LastTag' \in BackendTags
          THEN last'.err = "none" /\ get_backend' = LastTag'
          ELSE /\ last'.err = "Unknown backend: " \o LastTag'
               /\ UNCHANGED <<store, current_backend_>>
               /\ get_particle_count' = get_particle_count]_vars

\* an unknown tag refused by an engine that holds particles on a backend other
\* than the default one
BackendTagWitness ==
    /\ last.op \in {"initialize", "set_backend"}
    /\ LastTag \notin BackendTags
    /\ last.err # "none"
    /\ get_particle_count > 0
    /\ get_backend = "single"

\* array b is array a without its element at 0-based index k: the elements before
\* k are kept and those after k have moved down by one
Shifted(b, a, k) ==
    /\ Len(b) = Len(a) - 1
    /\ \A i \in 1..Len(b) : b[i] = IF i <= k THEN a[i] ELSE a[i + 1]

\* C11: remove_particle(k) with k < N leaves get_particle_count = N - 1, keeps in
\* all five arrays the values at every index i < k and moves the values at every
\* index i > k to i - 1
DeletionStability ==
    [][(last'.op = "remove_particle" /\ last'.arg < get_particle_count) =>
          /\ ~last'.ub /\ last'.err = "none" /\ pc' = "idle"
          /\ get_particle_count' = get_particle_count - 1
          /\ Shifted(positions', positions, last'.arg)
          /\ Shifted(velocities', velocities, last'.arg)
          /\ Shifted(accelerations', accelerations, last'.arg)
          /\ Shifted(masses', masses, last'.arg)
          /\ Shifted(types', types, last'.arg)]_vars

\* C12: remove_particle(index) with index >= get_particle_count raises no error and
\* leaves the five arrays, the particle count and the configuration unchanged
RemoveOutOfRangeIsNoOp ==
    [][(last'.op = "remove_particle" /\ last'.arg >= get_particle_count) =>
          /\ ~last'.ub /\ last'.err = "none" /\ pc' = "idle"
          /\ UNCHANGED <<store, config>>
          /\ get_particle_count' = get_particle_count]_vars

\* a removal at the particle count, an index that another array still holds
RemoveOutOfRangeWitness ==
    /\ last.op = "remove_particle"
    /\ ~last.ub
    /\ last.arg = get_particle_count
    /\ Len(masses) > last.arg

\* C13: add_particle appends: the count grows by one, the new particle is at index
\* N (the old count) with the given position, velocity, mass and type and zero
\* acceleration, and the values at every index i < N of the five arrays are unchanged
AddParticleAppends ==
    [][(last'.op = "add_particle" /\ last'.err = "none") =>
          LET N == get_particle_count
              keeps(b, a) == Len(b) = N + 1 /\ \A i \in 1..Min(N, Len(a)) : b[i] = a[i]
          IN  /\ get_particle_count' = N + 1
              /\ keeps(positions', positions)
              /\ keeps(velocities', velocities)
              /\ keeps(accelerations', accelerations)
              /\ keeps(masses', masses)
              /\ keeps(types', types)
              /\ positions'[N + 1] = SubSeq(last'.arg[1].data, 1, 3)
              /\ velocities'[N + 1] = SubSeq(last'.arg[2].data, 1, 3)
              /\ accelerations'[N + 1] = Zero3
              /\ masses'[N + 1] = last'.arg[3]
              /\ types'[N + 1] = last'.arg[4]]_vars

\* the five arrays of a store have the same length
EqualLengths(st) ==
    /\ Len(st.velocities) = Size(st)
    /\ Len(st.accelerations) = Size(st)
    /\ Len(st.masses) = Size(st)
    /\ Len(st.types) = Size(st)

\* C14: on every backend and in every build a step that returns has run the
\* pipeline (tree, aggregation, evaluation, integration, merge) and leaves the
\* positions, velocities, masses and particle count the serial backend leaves
BackendNotObservable ==
    (last.op = "step" /\ last.err = "none" /\ ~last.ub) =>
        /\ log.ran
        /\ EqualLengths(log.pre) => Store = step_cpu(log.pre, last.arg, Config).st


\* C15: under the parallel backend each worker i of force evaluation and of
\* integration writes only element i of the acceleration, position and velocity
\* arrays and never the tree, no worker reads or writes a cell another worker
\* writes, and whatever the interleaving the accelerations after the evaluation
\* loop and the store after the step equal those of the serial pipeline run on
\* the store the step started from.
ParallelWorkersIndependent ==
    /\ \A i \in Workers :
          /\ log.writes[i] \subseteq {Cell("accelerations", i), Cell("positions", i),
                                      Cell("velocities", i)}
          /\ \A k \in Workers \ {i} :
                log.writes[i] \cap (log.reads[k] \cup log.writes[k]) = {}
    /\ pc = "integrate" =>
          log.evaluated = compute_accelerations_barnes_hut(log.pre, Config).st.accelerations
    /\ (pc = "idle" /\ last.op = "step") =>
          Store = step_cpu(log.pre, log.dt, Config).st

\* a step of three particles whose workers ran out of index order has returned
ParallelWitness ==
    /\ pc = "idle" /\ last.op = "step"
    /\ Size(log.pre) = 3
    /\ log.reordered
    /\ log.evaluated # log.pre.accelerations
    /\ positions # log.pre.positions

\* C16: each parameter setter changes only the value it names (no array, no
\* count, no other parameter), and a step leaves the parameters alone, is
\* dispatched on the backend most recently set and computes its result from G,
\* softening, theta and the collision flag as they are when it is called.
ParametersTakeEffect ==
    [][/\ last'.op = "set_gravitational_constant" =>
             /\ G_' = last'.arg
             /\ UNCHANGED <<store, softening_, theta_, collisions_enabled_,
                            current_backend_>>
       /\ last'.op = "set_softening_length" =>
             /\ softening_' = last'.arg
             /\ UNCHANGED <<store, G_, theta_, collisions_enabled_, current_backend_>>
       /\ last'.op = "set_theta" =>
             /\ theta_' = last'.arg
             /\ UNCHANGED <<store, G_, softening_, collisions_enabled_, current_backend_>>
       /\ last'.op = "enable_collisions" =>
             /\ collisions_enabled_' = last'.arg
             /\ UNCHANGED <<store, G_, softening_, theta_, current_backend_>>
       /\ last'.op = "set_backend" =>
             /\ current_backend_' = IF last'.err = "none" THEN BackendOfTag(last'.arg)
                                    ELSE current_backend_
             /\ UNCHANGED <<store, G_, softening_, theta_, collisions_enabled_>>
       /\ last'.op = "step" =>
             /\ UNCHANGED <<G_, softening_, theta_, collisions_enabled_,
                            current_backend_>>
             /\ log'.ran = ~(current_backend_ = "OPENGL_COMPUTE" /\ build.opengl)
             /\ log'.ran =>
                   Store' = step_cpu(Store, last'.arg,
                                     [G |-> G_, softening |-> softening_,
                                      theta |-> theta_,
                                      collisions |-> collisions_enabled_]).st
      ]_vars

\* a step has run after a setter call changed one of the parameters the engine
\* started with, and its result is not the one the constructor's values give
ParametersWitness ==
    /\ last.op = "step" /\ log.ran
    /\ [G |-> G_, softening |-> softening_, theta |-> theta_,
        collisions |-> collisions_enabled_] \notin ParamConfigs
    /\ Store # step_cpu(log.pre, last.arg, DefaultConfig).st

\* C17: a new engine holds no particle, and after initialize(N, backend) has
\* returned, whatever the engine held before, each of the five arrays has
\* length N, every acceleration is (0,0,0) and the backend is the given one.
InitializeSizesStore ==
    /\ last.op = "PhysicsEngine" =>
          /\ get_particle_count = 0
          /\ Store = MkStore(<<>>, <<>>, <<>>, <<>>, <<>>)
    /\ Returned("initialize") =>
          /\ get_particle_count = last.arg[1]
          /\ Len(positions) = last.arg[1] /\ Len(velocities) = last.arg[1]
          /\ Len(accelerations) = last.arg[1]
          /\ Len(masses) = last.arg[1] /\ Len(types) = last.arg[1]
          /\ \A i \in 1..Len(accelerations) : accelerations[i] = Zero3
          /\ get_backend = last.arg[2]

\* initialize(3, "single") has returned on an engine that held two particles and
\* had been stepped: the first particle's velocity is no longer the one it was
\* given, and the third element is the one resize added
InitializeWitness ==
    /\ Returned("initialize") /\ last.arg = <<3, "single">>
    /\ calls = 2
    /\ velocities[1] \notin {p.vel : p \in ParParticles}
    /\ masses[3] = 0

\* C18: in every reachable state reset returns normally, leaves every particle
\* with the acceleration (0,0,0), and changes no position, velocity, mass, type,
\* count or parameter.
ResetOnlyZeroesAccelerations ==
    [][last'.op = "reset" =>
          /\ ~last'.ub /\ last'.err = "none" /\ pc' = "idle"
          /\ \A i \in 1..get_particle_count :
                i <= Len(accelerations') /\ accelerations'[i] = Zero3
          /\ get_particle_count' = get_particle_count
          /\ UNCHANGED <<positions, velocities, masses, types, config>>]_vars

\* C19: a step taken with collisions disabled changes no particle count, mass
\* or type (only positions, velocities and accelerations), and a step after
\* which the store holds fewer particles was taken with collisions enabled.
NoShrinkWithoutCollisions ==
    [][last'.op = "step" =>
          /\ ~collisions_enabled_ =>
                /\ get_particle_count' = get_particle_count
                /\ Len(velocities') = Len(velocities)
                /\ Len(accelerations') = Len(accelerations)
                /\ masses' = masses
                /\ types' = types
          /\ get_particle_count' < get_particle_count => collisions_enabled_
          /\ get_particle_count' <= get_particle_count]_vars

\* a step with collisions disabled has moved two particles to within the merge
\* distance of each other and both are still in the store
NoShrinkWitness ==
    /\ StepRan /\ ~collisions_enabled_
    /\ Size(log.pre) = 2 /\ get_particle_count = 2
    /\ PassDist2(0, 1) < MergeRadius2
    /\ positions # log.pre.positions
    /\ masses = log.pre.masses

\* what a step that ran the pipeline on store st leaves in the arrays if the
\* memory beyond the end of the shorter arrays holds g
StepResult(st, dt, cfg, g) ==
    LET r == step_cpu(PadStore(st, g), dt, cfg)
    IN  UnpadStore(r.st, st, r.removed)

\* C20: the particle state after a step is a function of the store, the
\* parameters and dt at its start: the step makes no access whose outcome is
\* undefined, and two engines equal at the start are equal at the end, whatever
\* else their memory holds and whatever steps they ran before.
StepIsDeterministic ==
    [][(last'.op = "step" /\ log'.ran) =>
          /\ ~last'.ub
          /\ \A g \in Garbage : Store' = StepResult(Store, last'.arg, Config, g)]_vars

\* the last step built a tree over N >= 1 particles
TreeBuilt == StepRan /\ Len(log.pre.positions) >= 1

\* the node at path p holds a particle and has no children
IsParticleLeaf(t, p) == t[p].particle_index >= 0 /\ ~HasChildren(t, p)

\* C21: for N >= 1 particles at pairwise distinct positions the tree a step
\* builds has, for every particle index 0..N-1, exactly one leaf (a node that
\* holds a particle and has no children) holding it, and every leaf holds one
\* of these indices.
LeavesMatchParticles ==
    (TreeBuilt /\ DistinctPositions(log.pre.positions)) =>
        /\ \A i \in 0..(Len(log.pre.positions) - 1) :
              Cardinality({p \in DOMAIN log.tree :
                              IsParticleLeaf(log.tree, p)
                              /\ log.tree[p].particle_index = i}) = 1
        /\ \A p \in DOMAIN log.tree :
              IsParticleLeaf(log.tree, p) =>
                  log.tree[p].particle_index \in 0..(Len(log.pre.positions) - 1)

\* C22: no node of a built tree both holds a particle index and has a child:
\* every node is empty, a leaf or internal, and a particle inserted into a node
\* that has children is never stored in that node.
NodeKindsExclusive ==
    TreeBuilt =>
        \A p \in DOMAIN log.tree :
            ~(log.tree[p].particle_index >= 0 /\ HasChildren(log.tree, p))

\* path p is path q or one of its ancestors
IsPrefix(p, q) == Len(p) <= Len(q) /\ SubSeq(q, 1, Len(p)) = p

\* the particles stored in the subtree of the node at path p
SubtreeParticles(t, p) ==
    {t[q].particle_index : q \in {q \in DOMAIN t : IsPrefix(p, q)
                                                   /\ t[q].particle_index >= 0}}

RECURSIVE MassOf(_, _)
MassOf(S, ms) ==
    IF S = {} THEN 0
    ELSE LET i == CHOOSE i \in S : TRUE IN ms[i + 1] + MassOf(S \ {i}, ms)

\* C23: after the aggregation pass over a tree of N >= 1 particles at distinct
\* positions every node's total_mass is the sum of the masses of the particles
\* stored in its subtree; the root's is the sum over all particles.
AggregatedMassIsSubtreeSum ==
    (TreeBuilt /\ DistinctPositions(log.pre.positions)) =>
        /\ \A p \in DOMAIN log.tree :
              log.tree[p].total_mass =
                  MassOf(SubtreeParticles(log.tree, p), log.pre.masses)
        /\ log.tree[Root].total_mass =
               MassOf(0..(Len(log.pre.positions) - 1), log.pre.masses)

\* C24: a step on a store with two or more particles at the same position runs
\* to completion: the construction of the tree ends.
BuildTerminatesOnCoincident ==
    (last.op = "step" /\ ~DistinctPositions(log.pre.positions)) =>
        (last.err = "none" /\ pc = "idle")

\* C25: the integration of a step gives every particle i, on each axis k, the
\* position x + v*dt + a*dt^2/2 (in length units) and the velocity v + a*dt,
\* where x, v and a are its position, velocity and acceleration when the
\* integration starts (v the velocity before this update); accelerations,
\* masses and types are as before the integration.
PositionVerlet ==
    StepRan =>
        LET old == log.evaluated
            new == log.integrated
            dt == last.arg
        IN  /\ Len(new.positions) = Len(old.positions)
            /\ Len(new.velocities) = Len(old.velocities)
            /\ \A i \in 1..Len(old.positions) : \A k \in 1..3 :
                  /\ new.positions[i][k] =
                         old.positions[i][k]
                         + Quot(old.velocities[i][k] * dt
                                + Quot(old.accelerations[i][k] * dt * dt, 2), FScale)
                  /\ new.velocities[i][k] =
                         old.velocities[i][k] + old.accelerations[i][k] * dt
            /\ new.accelerations = old.accelerations
            /\ new.masses = old.masses
            /\ new.types = old.types

\* a step has integrated a particle with a velocity and an acceleration large
\* enough over dt that advancing the position with the updated velocity would
\* have put it elsewhere
PositionVerletWitness ==
    /\ StepRan
    /\ \E i \in 1..Len(log.evaluated.positions) : \E k \in 1..3 :
          /\ log.evaluated.velocities[i][k] # 0
          /\ Quot(log.evaluated.accelerations[i][k] * last.arg * last.arg, FScale) # 0
          /\ log.integrated.positions[i][k] # log.evaluated.positions[i][k]

\* C26: in the merges <<i, j>> of one collision pass, taken in order, i < j, no
\* particle is merged away twice, a particle merged away is never the absorbing
\* particle of a later merge, and an absorbing particle is never merged away:
\* the marked particles are exactly the j's, each absorbed by one survivor.
MarkedNeverCollideAgain ==
    CollisionPassRan =>
        /\ \A k \in 1..Len(log.merges) : log.merges[k][1] < log.merges[k][2]
        /\ \A k, l \in 1..Len(log.merges) :
              k < l => /\ log.merges[l][2] # log.merges[k][2]
                       /\ log.merges[l][1] # log.merges[k][2]
        /\ \A k \in 1..Len(log.merges) : log.merges[k][1] \notin log.removed
        /\ log.removed = {log.merges[k][2] : k \in 1..Len(log.merges)}
        /\ Cardinality(log.removed) = Len(log.merges)

\* a pass has marked a particle j that lies within the merge distance of a later
\* particle k which nothing absorbed: only the mark kept j from absorbing k
MarkedNeverCollideWitness ==
    /\ CollisionPassRan
    /\ \E j \in log.removed :
          \E k \in (j + 1)..(Len(log.integrated.positions) - 1) :
              /\ k \notin log.removed
              /\ PassDist2(j, k) < MergeRadius2

\* element i (0-based) of array v at the end of the scan is element
\* IndexAfterPass(i) of array w after the removals
KeptAt(v, w, i) == w[IndexAfterPass(i) + 1] = v[i + 1]

\* C27: after the removals of a collision pass the store holds exactly the
\* particles the scan left unmarked, in their order, each with the position,
\* velocity, acceleration, mass and type it had at the end of the scan, and
\* the count is the count before minus the number of marked particles.
RemovalKeepsUnmarked ==
    CollisionPassRan =>
        LET n == Len(log.scanned.positions)
            left == n - Cardinality(log.removed)
        IN  /\ log.removed \subseteq 0..(n - 1)
            /\ Len(log.post.positions) = left /\ Len(log.post.velocities) = left
            /\ Len(log.post.accelerations) = left
            /\ Len(log.post.masses) = left /\ Len(log.post.types) = left
            /\ get_particle_count = left
            /\ Store = log.post
            /\ \A i \in (0..(n - 1)) \ log.removed :
                  /\ KeptAt(log.scanned.positions, log.post.positions, i)
                  /\ KeptAt(log.scanned.velocities, log.post.velocities, i)
                  /\ KeptAt(log.scanned.accelerations, log.post.accelerations, i)
                  /\ KeptAt(log.scanned.masses, log.post.masses, i)
                  /\ KeptAt(log.scanned.types, log.post.types, i)

\* a pass over three particles has marked two of them and removed both
RemovalWitness ==
    /\ CollisionPassRan
    /\ Len(log.scanned.positions) = 3
    /\ Cardinality(log.removed) = 2
    /\ get_particle_count = 1

\* the tree of the positions and masses of store st, aggregated
AggregatedTreeOf(st) ==
    IF Size(st) = 0 THEN NoTree
    ELSE compute_node_mass_distribution(build_octree(st.positions), Root,
                                        st.masses, st.positions)

\* C28: a step runs build, aggregate, evaluate, integrate, merge in this order:
\* the tree is that of the positions and masses at the start of the step, the
\* accelerations are evaluated on that tree at those positions and nothing else
\* changes before the integration, the integration starts from that store, the
\* collision pass runs on the integrated store exactly when collisions are
\* enabled, and its result is the store the step leaves.
PhasesInOrder ==
    StepRan =>
        /\ log.tree = AggregatedTreeOf(log.pre)
        /\ log.evaluated =
               [log.pre EXCEPT !.accelerations =
                   [i \in 1..Len(log.pre.accelerations) |->
                       compute_acceleration_from_tree(i - 1, log.tree, Root,
                           NoAcceleration, log.pre.positions, Config).a]]
        /\ log.integrated = integrate_verlet(log.evaluated, last.arg)
        /\ log.collided = collisions_enabled_
        /\ log.scanned.positions = log.integrated.positions
        /\ log.post = IF collisions_enabled_
                      THEN handle_collisions(log.integrated, Config).st
                      ELSE log.integrated
        /\ Store = log.post

\* a step in which every phase acted: a tree with children, an acceleration
\* other than zero, a position moved, and a merge afterwards
PhasesWitness ==
    /\ StepRan
    /\ HasChildren(log.tree, Root)
    /\ \E i \in 1..Len(log.evaluated.accelerations) :
          log.evaluated.accelerations[i] # Zero3
    /\ log.integrated.positions # log.pre.positions
    /\ log.collided /\ Len(log.merges) >= 1

\* the particles merged into particle i by the pass
MergedInto(i) ==
    {log.merges[k][2] : k \in {k \in 1..Len(log.merges) : log.merges[k][1] = i}}

\* C29: a collision pass conserves total mass: the masses in the store after
\* it sum to what they summed to before it, each survivor has its own mass plus
\* the masses of the particles merged into it, and no step leaves more
\* particles than it started with.
MassConserved ==
    /\ StepRan => Len(log.post.positions) <= Len(log.pre.positions)
    /\ CollisionPassRan =>
          /\ MassOf(0..(Len(log.post.masses) - 1), log.post.masses)
                 = MassOf(0..(Len(log.integrated.masses) - 1), log.integrated.masses)
          /\ \A i \in (0..(Len(log.integrated.masses) - 1)) \ log.removed :
                log.post.masses[IndexAfterPass(i) + 1]
                    = log.integrated.masses[i + 1]
                      + MassOf(MergedInto(i), log.integrated.masses)

\* a pass has merged two particles that both have mass
MassConservedWitness ==
    /\ CollisionPassRan
    /\ \E k \in 1..Len(log.merges) :
          /\ log.integrated.masses[log.merges[k][1] + 1] > 0
          /\ log.integrated.masses[log.merges[k][2] + 1] > 0
    /\ Len(log.post.masses) < Len(log.integrated.masses)

\* the bit of octant code o for axis k: 4 for x, 2 for y, 1 for z
AxisBit(o, k) == (o \div (IF k = 1 THEN 4 ELSE IF k = 2 THEN 2 ELSE 1)) % 2 = 1

Parent(p) == SubSeq(p, 1, Len(p) - 1)

\* C30: in a built tree every child has half its parent's size and a centre
\* offset from the parent's by +size/4 on each axis whose bit is set in its
\* octant code and -size/4 on the others, and every node holding a particle lies,
\* at each level above it, in the octant given by comparing the particle's
\* position with the centre at that level (bit set iff coordinate >= centre).
ChildGeometry ==
    TreeBuilt =>
        /\ \A p \in DOMAIN log.tree \ {Root} :
              /\ p[Len(p)] \in 0..7
              /\ Parent(p) \in DOMAIN log.tree
              /\ 2 * log.tree[p].size = log.tree[Parent(p)].size
              /\ \A k \in 1..3 :
                    4 * (log.tree[p].center[k] - log.tree[Parent(p)].center[k])
                        = IF AxisBit(p[Len(p)], k) THEN log.tree[Parent(p)].size
                          ELSE -log.tree[Parent(p)].size
        /\ \A p \in DOMAIN log.tree :
              log.tree[p].particle_index >= 0 =>
                  \A d \in 1..Len(p) : \A k \in 1..3 :
                      AxisBit(p[d], k) <=>
                          log.pre.positions[log.tree[p].particle_index + 1][k] * TreeUnit
                              >= log.tree[SubSeq(p, 1, d - 1)].center[k]

\* a tree in which a particle was inserted two or more levels below the root
ChildGeometryWitness ==
    /\ TreeBuilt
    /\ \E p \in DOMAIN log.tree : Len(p) >= 2 /\ log.tree[p].particle_index >= 0


====
